---- MODULE Spec2Model ----
(***************************************************************************)
(* Model of the device service lifecycle engine of device-sdk-c:           *)
(* devsdk_service_start, ping_client and startConfigured (service.c).      *)
(* The bring-up thread is a sequential process whose position is pc; every *)
(* external collaborator (registry, metadata, data, driver, HTTP server)   *)
(* answers nondeterministically.                                           *)
(***************************************************************************)
EXTENDS Integers, Sequences, FiniteSets, TLC

\* ------------------------------------------------------------------ bounds
MaxRetries == 2        \* largest config.service.connectretries explored
MaxRetryCount == 2     \* largest edgex_registry_retry_count explored
MaxPort == 2           \* ports are 1..MaxPort
MaxDevices == 1        \* metadata knows the devices 1..MaxDevices
MaxPostCalls == 2      \* calls of devsdk_post_readings explored
MaxLen == 2            \* longest name-value list passed to devsdk-base.c
MaxStr == 2            \* longest value string parsed by a typed accessor
MaxArgs == 3           \* most command-line arguments after the program name

\* ------------------------------------------------------- program constants
DefaultRegistryRetries == 5     \* unsigned retries = 5;

VARIABLES
  pc,           \* position of the bring-up thread
  err,          \* *err, the caller's error record (its code)
  regURL,       \* svc->regURL: "null", "empty" or "url"
  registry,     \* svc->registry != NULL
  config,       \* toml table loaded (config != NULL)
  uploadConfig, \* local uploadConfig of devsdk_service_start
  stopconfig,   \* svc->stopconfig: "null" (not allocated), "false", "true"
  watching,     \* get_config subscribed the config-watch task
  cfg,          \* svc->config: service.host, service.port, connectretries, logging.useremote
  endpoints,    \* svc->config.endpoints: which of data/metadata/logging have host and port
  confpairs,    \* local confpairs of devsdk_service_start: the name-value list
  envOver,      \* environment override of Service/Port seen by overrideConfig, or "unset"
  regStore,     \* registry: the configuration stored for this service by put_config
  errc,         \* edgex_registry_retry_count as read by getenv and atoi
  retries,      \* local retries of the registry wait loop
  regPings,     \* number of devsdk_registry_ping calls issued
  ping,         \* locals of the running ping_client invocation
  dsFound,      \* what get_deviceservice returned: "none" (not called), "null", "record"
  ds,           \* local ds of startConfigured
  addr,         \* local addr of startConfigured
  mdDS,         \* metadata: a device-service record exists under svc->name
  mdAddr,       \* metadata: the addressable stored under svc->name
  daemon,       \* svc->daemon != NULL (HTTP server created)
  handlers,     \* handlers registered on the HTTP server
  initResult,   \* what the driver's init callback returned: "none", "true", "false"
  watchersFailed, \* get_watchers set an error
  schedulerStarted,
  registered,   \* service registered in the registry
  calls,        \* the external operations invoked so far, in order
  devices,      \* svc->devices: the names in the device map
  devsReturned, \* local devs of startConfigured: what get_devices returned
  cbDelivered,  \* a metadata callback has been handled by the callback handler
  force,        \* devsdk_service_stop: the caller's force flag
  work,         \* svc->thpool: doPost work items queued or executing
  dpc,          \* position of the driver thread inside devsdk_post_readings
  post,         \* arguments and locals of the driver thread's latest call
  postCalls,    \* number of devsdk_post_readings calls begun
  driverStop,   \* force as passed to the driver's stop callback: "none", "true", "false"
  nv,           \* a call into devsdk-base.c: its arguments, its stage and its results
  cl            \* the command line handed to devsdk_service_new and its processing

vars == <<pc, err, regURL, registry, config, uploadConfig, stopconfig, watching,
          cfg, endpoints, confpairs, envOver, regStore, errc, retries, regPings, ping, dsFound, ds, addr, mdDS, mdAddr,
          daemon, handlers, initResult, watchersFailed, schedulerStarted,
          registered, calls, devices, devsReturned, cbDelivered,
          force, work, dpc, post, postCalls, driverStop, nv, cl>>

\* groups used in UNCHANGED
pairVars == <<confpairs, envOver, regStore>>
cfgVars == <<regURL, registry, config, uploadConfig, stopconfig, watching, cfg, endpoints>>
confVars == <<cfgVars, pairVars>>
regLoopVars == <<errc, retries, regPings>>
mdVars == <<dsFound, ds, addr, mdDS, mdAddr>>
devVars == <<devices, devsReturned, cbDelivered>>
postVars == <<dpc, post, postCalls>>
runVars == <<force, work, postVars, driverStop>>
\* what neither devsdk_service_stop nor devsdk_post_readings changes
startVars == <<regURL, registry, config, uploadConfig, watching, cfg, endpoints, pairVars,
               regLoopVars, ping, mdVars, initResult, watchersFailed, devsReturned, nv, cl>>
svcVars == <<daemon, handlers, initResult, watchersFailed, schedulerStarted, registered>>

\* ------------------------------------------------------------------ values
Hosts == {"nodename", "cfghost"}
Ports == 1..MaxPort
NoAddr == [address |-> "none", port |-> 0]
Addressables == [address : Hosts, port : Ports]
NoDS == [exists |-> FALSE, addressable |-> NoAddr]

ZeroConfig == [host |-> "NULL", port |-> 0, connectretries |-> 0, useremote |-> FALSE]
Configs == [host : {"NULL", "cfghost"}, port : Ports,
            connectretries : 0..MaxRetries, useremote : BOOLEAN]
NoEndpoints == [data |-> FALSE, metadata |-> FALSE, logging |-> FALSE]
EndpointSets == [data : BOOLEAN, metadata : BOOLEAN, logging : BOOLEAN]

NoPing == [svc |-> "none", n |-> 0, retries |-> 0, gets |-> <<>>, sleeps |-> 0,
           interrupted |-> FALSE, result |-> "none"]

\* the name-value list of a configuration whose typed values are c (parseToml)
TomlPairs(c) ==
  (IF c.host = "NULL" THEN <<>> ELSE <<[name |-> "Service/Host", value |-> c.host]>>)
  \o <<[name |-> "Service/Port", value |-> ToString(c.port)],
       [name |-> "Service/ConnectRetries", value |-> ToString(c.connectretries)],
       [name |-> "Logging/EnableRemote", value |-> IF c.useremote THEN "true" ELSE "false"]>>

\* a NULL name pointer
NullName == "NULL"
\* the lookup finds an element: name is given and occurs in the list
Present(list, name) == name # NullName /\ \E i \in 1..Len(list) : list[i].name = name
\* lookup of a name in a list, "NULL" when absent (devsdk_nvpairs_value)
PairValue(list, name) ==
  IF Present(list, name)
    THEN list[CHOOSE i \in 1..Len(list) :
                /\ list[i].name = name
                /\ \A h \in 1..(i - 1) : list[h].name # name].value
    ELSE "NULL"

\* the typed configuration record read from a list (populateConfig)
PopulateConfig(list) ==
  [host |-> PairValue(list, "Service/Host"),
   port |-> CHOOSE p \in Ports : ToString(p) = PairValue(list, "Service/Port"),
   connectretries |-> CHOOSE n \in 0..MaxRetries :
                        ToString(n) = PairValue(list, "Service/ConnectRetries"),
   useremote |-> PairValue(list, "Logging/EnableRemote") = "true"]

\* environment-sourced overrides applied to the list in place (overrideConfig)
PortOverrides == {"unset", "1"}
OverrideConfig(list, env) ==
  [i \in 1..Len(list) |->
     IF list[i].name = "Service/Port" /\ env # "unset"
       THEN [list[i] EXCEPT !.value = env]
       ELSE list[i]]

\* the registry's configuration store
EmptyStore == [has |-> FALSE, pairs |-> <<>>]
RegistryPutConfig(list) == regStore' = [has |-> TRUE, pairs |-> list]
RegistryGetConfig == regStore

\* ------------------------------------------------------------ devsdk-base.c
\* strings are sequences over this alphabet: sign, digit, point, any other
Chars == {"-", "1", ".", "x"}
Digits == {"1"}
DigitValue(c) == IF c = "1" THEN 1 ELSE 0
RECURSIVE StringsOfLen(_)
StringsOfLen(n) ==
  IF n = 0 THEN {<<>>}
  ELSE {Append(s, c) : s \in StringsOfLen(n - 1), c \in Chars}
Strings == UNION {StringsOfLen(n) : n \in 0..MaxStr}

\* names and values of the lists compared and copied
Names == {"a", "b"}
Values == {<<"1">>, <<"1", "1">>}
Pairs == [name : Names, value : Values]
RECURSIVE ListsOfLen(_)
ListsOfLen(n) ==
  IF n = 0 THEN {<<>>}
  ELSE {Append(l, p) : l \in ListsOfLen(n - 1), p \in Pairs}
ListsUpTo(n) == UNION {ListsOfLen(k) : k \in 0..n}

\* lines 24-31: a new element in front of the list
devsdk_nvpairs_new(name, value, list) == <<[name |-> name, value |-> value]>> \o list

\* lines 102-118: a copy, element by element, in the same order
devsdk_nvpairs_dup(p) ==
  [i \in 1..Len(p) |-> [name |-> p[i].name, value |-> p[i].value]]

\* lines 213-216
pair_equal(p1, p2) == p1.value = p2.value

\* lines 192-211, 218: equal lengths, and every element of l1 equal to the
\* first element of l2 that has its name
devsdk_nvpairs_equal(l1, l2) ==
  /\ Len(l1) = Len(l2)
  /\ \A i \in 1..Len(l1) :
       /\ \E j \in 1..Len(l2) : l2[j].name = l1[i].name
       /\ LET found == CHOOSE j \in 1..Len(l2) :
                          /\ l2[j].name = l1[i].name
                          /\ \A h \in 1..(j - 1) : l2[h].name # l1[i].name
          IN pair_equal(l1[i], l2[found])

\* numbers as the accessors store them: sign, whole part, digits after the
\* point; wrapped is set for the unsigned value 2^64 - whole
Number(neg, whole, frac, wrapped) ==
  [neg |-> neg, whole |-> whole, frac |-> frac, wrapped |-> wrapped]
\* what the caller's output variable holds before the call
Uninitialised == Number(FALSE, 0, <<"x">>, FALSE)

\* the index after the longest run of digits of s that begins at i
RECURSIVE DigitsEnd(_, _)
DigitsEnd(s, i) ==
  IF i <= Len(s) /\ s[i] \in Digits THEN DigitsEnd(s, i + 1) ELSE i
\* the decimal value of the digits s[i..j-1]
RECURSIVE DigitsValue(_, _, _)
DigitsValue(s, i, j) ==
  IF j <= i THEN 0 ELSE 10 * DigitsValue(s, i, j - 1) + DigitValue(s[j - 1])
Negative(s) == Len(s) > 0 /\ s[1] = "-"
AfterSign(s) == IF Negative(s) THEN 2 ELSE 1

\* strtol (v, &end, 0) on a string of Chars: an optional sign and decimal
\* digits; with no digit nothing is converted and end is v. No string of
\* MaxStr characters is out of range, so errno stays 0.
strtol(s) ==
  LET i == AfterSign(s)
      j == DigitsEnd(s, i)
  IN IF j = i
       THEN [end |-> 1, errno |-> 0, val |-> Number(FALSE, 0, <<>>, FALSE)]
       ELSE [end |-> j, errno |-> 0,
             val |-> Number(Negative(s), DigitsValue(s, i, j), <<>>, FALSE)]

\* strtoul (v, &end, 0): as strtol, and a minus sign negates the value in the
\* unsigned type without an error
strtoul(s) ==
  LET i == AfterSign(s)
      j == DigitsEnd(s, i)
  IN IF j = i
       THEN [end |-> 1, errno |-> 0, val |-> Number(FALSE, 0, <<>>, FALSE)]
       ELSE [end |-> j, errno |-> 0,
             val |-> Number(FALSE, DigitsValue(s, i, j), <<>>, Negative(s))]

\* strtof (v, &end): an optional sign, digits with an optional point, at
\* least one digit
strtof(s) ==
  LET i == AfterSign(s)
      j == DigitsEnd(s, i)
      point == j <= Len(s) /\ s[j] = "."
      k == IF point THEN DigitsEnd(s, j + 1) ELSE j
  IN IF j = i /\ (~point \/ k = j + 1)
       THEN [end |-> 1, errno |-> 0, val |-> Number(FALSE, 0, <<>>, FALSE)]
       ELSE [end |-> k, errno |-> 0,
             val |-> Number(Negative(s), DigitsValue(s, i, j),
                            IF point THEN SubSeq(s, j + 1, k - 1) ELSE <<>>, FALSE)]

\* lines 48-100: the typed accessors, which differ in the parsing function;
\* the result is the return value and the content of *val
TypedValue(type, nvp, name, out) ==
  LET v == PairValue(nvp, name)
  IN IF Present(nvp, name) /\ Len(v) > 0             \* v && *v
       THEN LET r == CASE type = "long" -> strtol(v)
                       [] type = "ulong" -> strtoul(v)
                       [] type = "float" -> strtof(v)
            IN IF r.errno = 0 /\ r.end = Len(v) + 1  \* errno == 0 && *end == 0
                 THEN [ret |-> TRUE, val |-> r.val]
                 ELSE [ret |-> FALSE, val |-> out]
       ELSE [ret |-> FALSE, val |-> out]
devsdk_nvpairs_long_value(nvp, name, out) == TypedValue("long", nvp, name, out)
devsdk_nvpairs_ulong_value(nvp, name, out) == TypedValue("ulong", nvp, name, out)
devsdk_nvpairs_float_value(nvp, name, out) == TypedValue("float", nvp, name, out)

\* no call into devsdk-base.c
NoCall == [call |-> "none", stage |-> "input", l1 |-> <<>>, l2 |-> <<>>, name |-> NullName,
           ret |-> FALSE, val |-> Uninitialised]
Accessors == {"long", "ulong", "float"}
\* the lists handed to an accessor: any value string in front of a short list
AccessorLists ==
  {<<>>} \cup {devsdk_nvpairs_new(n, s, l) :
                 n \in Names, s \in Strings, l \in ListsUpTo(MaxLen - 1)}
\* the calls explored, with their arguments
NvCalls ==
  {[NoCall EXCEPT !.call = "dup", !.l1 = l] : l \in ListsUpTo(MaxLen)}
  \cup {[NoCall EXCEPT !.call = "equal", !.l1 = l[1], !.l2 = l[2]] :
          l \in ListsUpTo(MaxLen) \X ListsUpTo(MaxLen)}
  \cup {[NoCall EXCEPT !.call = a[1], !.l1 = a[2], !.name = a[3]] :
          a \in Accessors \X AccessorLists \X (Names \cup {NullName})}

\* values of the environment variable edgex_registry_retry_count, after atoi
NoEnv == [set |-> FALSE, rc |-> 0]
RetryCountEnv == {NoEnv} \cup [set : {TRUE}, rc : -1..MaxRetryCount]

\* device names: metadata knows 1..MaxDevices, a driver may name one more
Devs == 1..MaxDevices
DevNames == 1..(MaxDevices + 1)
\* resource names, and those the device profile resolves to a command
Resources == {"res1", "res2"}
ProfileCommands == {"res1"}
\* the driver thread before its first call of devsdk_post_readings
NoPost == [devname |-> 0, resname |-> "none", dev |-> FALSE, command |-> FALSE,
           event |-> FALSE, added |-> 0, logged |-> "none",
           profile |-> "none", used |-> "none"]
\* the profile the driver thread's command descriptor is part of: "live" while
\* a device of the map holds it; when the devices in gone leave the map, the
\* record and its profile are reclaimed at once ("freed") unless the thread
\* still holds its handle, in which case they wait for the release ("pending")
ProfileAfterRemoval(gone) ==
  IF post.devname \in gone /\ post.profile = "live"
       /\ dpc \in {"findcommand", "process_event"}
    THEN [post EXCEPT !.profile = IF dpc = "findcommand" THEN "pending" ELSE "freed"]
    ELSE post
\* edgex_device_release: the last handle on a removed device reclaims it and
\* drops its reference to the profile
DeviceRelease(profile) == IF profile = "pending" THEN "freed" ELSE profile

\* ------------------------------------------------------------ command line
\* strings are sequences of characters; a null pointer is none of them
NULL == <<"NULL">>
ShortRegistry == <<"-", "r">>
LongRegistry == <<"-", "-", "r", "e", "g", "i", "s", "t", "r", "y">>
ShortName == <<"-", "n">>
LongName == <<"-", "-", "n", "a", "m", "e">>
ShortProfile == <<"-", "p">>
LongProfile == <<"-", "-", "p", "r", "o", "f", "i", "l", "e">>
ShortConfdir == <<"-", "c">>
LongConfdir == <<"-", "-", "c", "o", "n", "f", "d", "i", "r">>
ProgramName == <<"s", "v", "c">>
\* the command-line arguments explored: each flag alone and as --flag=value,
\* an empty value, a plain word and a flag the SDK does not know
CmdArgs ==
  { ShortRegistry, LongRegistry \o <<"=", "u">>,
    ShortName, LongName \o <<"=", "a">>, LongName \o <<"=">>,
    ShortProfile, LongProfile \o <<"=", "b">>,
    ShortConfdir, LongConfdir \o <<"=", "d">>,
    <<"v">>, <<"-", "x">> }
RECURSIVE ArgvOfLen(_)
ArgvOfLen(k) ==
  IF k = 0 THEN {<<ProgramName>>}
  ELSE {Append(a, x) : a \in ArgvOfLen(k - 1), x \in CmdArgs}
\* the command lines of up to m arguments
ArgvsUpTo(m) == UNION {ArgvOfLen(k) : k \in 0..m}
\* the value of the environment variable edgex_registry
RegistryEnvValues == {NULL, <<"e">>}

\* strchr: the position of the first c in s, 0 when there is none
strchr(s, c) ==
  IF \E i \in 1..Len(s) : s[i] = c
    THEN CHOOSE i \in 1..Len(s) : s[i] = c /\ \A j \in 1..(i - 1) : s[j] # c
    ELSE 0

\* lines 57-79: a flag whose value is optional
testArgOpt(arg, val, pshort, plong, var, result) ==
  IF arg = pshort \/ arg = plong
    THEN IF val # NULL /\ val # <<>> /\ val[1] # "-"
           THEN [match |-> TRUE, var |-> val, result |-> result]
           ELSE [match |-> TRUE, var |-> IF var = NULL THEN <<>> ELSE var,
                 result |-> FALSE]
    ELSE [match |-> FALSE, var |-> var, result |-> result]

\* lines 81-100: a flag that requires a value
testArg(arg, val, pshort, plong, var, result) ==
  IF arg = pshort \/ arg = plong
    THEN IF val # NULL /\ val # <<>>
           THEN [match |-> TRUE, var |-> val, result |-> result]
           ELSE [match |-> TRUE, var |-> var, result |-> FALSE]
    ELSE [match |-> FALSE, var |-> var, result |-> result]

\* lines 102-109: argv[start + nargs .. argc - 1] move down by nargs
\* (argv[i] of the code is argv[i + 1] here)
consumeArgs(argc, argv, start, nargs) ==
  [argc |-> argc - nargs,
   argv |-> [i \in 1..Len(argv) |->
              IF i - 1 >= start /\ i - 1 + nargs < argc THEN argv[i + nargs]
                                                       ELSE argv[i]]]

\* lines 126-161: one turn of the loop of processCmdLine on the state c
processArg(c) ==
  LET entry == c.argv[c.n + 1]
      eq == strchr(entry, "=")
      arg == IF eq > 0 THEN SubSeq(entry, 1, eq - 1) ELSE entry
      val == IF eq > 0 THEN SubSeq(entry, eq + 1, Len(entry))
             ELSE IF c.n + 1 < c.argc THEN c.argv[c.n + 2] ELSE NULL
      r == testArgOpt(arg, val, ShortRegistry, LongRegistry, c.regURL, c.result)
      nm == testArg(arg, val, ShortName, LongName, c.name, c.result)
      pr == testArg(arg, val, ShortProfile, LongProfile, c.profile, c.result)
      cd == testArg(arg, val, ShortConfdir, LongConfdir, c.confdir, c.result)
      consumed(k) == consumeArgs(c.argc, c.argv, c.n, k)
  IN  IF r.match
        THEN [c EXCEPT !.regURL = r.var, !.result = TRUE,
                       !.argc = consumed(IF r.result THEN 2 ELSE 1).argc,
                       !.argv = consumed(IF r.result THEN 2 ELSE 1).argv]
      ELSE IF nm.match
        THEN [c EXCEPT !.name = nm.var, !.result = nm.result,
                       !.argc = consumed(IF eq > 0 THEN 1 ELSE 2).argc,
                       !.argv = consumed(IF eq > 0 THEN 1 ELSE 2).argv]
      ELSE IF pr.match
        THEN [c EXCEPT !.profile = pr.var, !.result = pr.result,
                       !.argc = consumed(IF eq > 0 THEN 1 ELSE 2).argc,
                       !.argv = consumed(IF eq > 0 THEN 1 ELSE 2).argv]
      ELSE IF cd.match
        THEN [c EXCEPT !.confdir = cd.var, !.result = cd.result,
                       !.argc = consumed(IF eq > 0 THEN 1 ELSE 2).argc,
                       !.argv = consumed(IF eq > 0 THEN 1 ELSE 2).argv]
      ELSE [c EXCEPT !.n = c.n + 1]

\* lines 111-125: processCmdLine entered on argv with the environment's
\* edgex_registry; the service record is zeroed (line 193)
CmdLineEntry(argv, env) ==
  [stage |-> "loop", orig |-> argv, argv |-> argv, argc |-> Len(argv), n |-> 1,
   result |-> TRUE, regURLenv |-> env, regURL |-> env, name |-> NULL,
   profile |-> NULL, confdir |-> NULL, err |-> "OK"]
\* no command line under processing
NoCmdLine == [CmdLineEntry(<<ProgramName>>, NULL) EXCEPT !.stage = "none"]
CmdLines(m) ==
  {CmdLineEntry(argv, env) : argv \in ArgvsUpTo(m), env \in RegistryEnvValues}

CallbackHandler == "callback"
RemainingHandlers == {"device", "discovery", "metrics", "config", "version", "ping"}

Log(op) == calls' = Append(calls, op)
Called(op) == \E i \in 1..Len(calls) : calls[i] = op

\* return from devsdk_service_start with the error code e
Return(e) == pc' = "done" /\ err' = e

\* --------------------------------------------------------------------- Init
ServiceNew ==
  /\ pc = "start"
  /\ err = "OK"
  /\ regURL \in {"null", "empty", "url"}
  /\ registry = FALSE
  /\ config = FALSE
  /\ uploadConfig = FALSE
  /\ stopconfig = "null"
  /\ watching = FALSE
  /\ cfg = ZeroConfig
  /\ endpoints = NoEndpoints
  /\ confpairs = <<>>
  /\ envOver = "unset"
  /\ regStore = EmptyStore
  /\ errc = NoEnv
  /\ retries = 0
  /\ regPings = 0
  /\ ping = NoPing
  /\ dsFound = "none"
  /\ ds = NoDS
  /\ addr = NoAddr
  /\ mdDS \in BOOLEAN
  /\ mdAddr \in Addressables \cup {NoAddr}
  /\ (mdDS => mdAddr # NoAddr)
  /\ daemon = FALSE
  /\ handlers = {}
  /\ initResult = "none"
  /\ watchersFailed = FALSE
  /\ schedulerStarted = FALSE
  /\ registered = FALSE
  /\ calls = <<>>
  /\ devices = {}
  /\ devsReturned = {}
  /\ cbDelivered = FALSE
  /\ force = FALSE
  /\ work = 0
  /\ dpc = "idle"
  /\ post = NoPost
  /\ postCalls = 0
  /\ driverStop = "none"

Init == ServiceNew /\ nv = NoCall /\ cl = NoCmdLine

\* ------------------------------------------------- devsdk_service_start
\* lines 553-564: start the thread pool, clear the error
ServiceStart ==
  /\ pc = "start"
  /\ pc' = "resolve_registry"
  /\ err' = "OK"
  /\ Log("threadpool_start")
  /\ UNCHANGED <<confVars, regLoopVars, ping, mdVars, svcVars>>
  /\ UNCHANGED <<devVars, runVars, nv, cl>>

\* lines 566-587: find the registry, from the URL given or from the file
ResolveRegistry ==
  /\ pc = "resolve_registry"
  /\ UNCHANGED <<uploadConfig, stopconfig, watching, cfg, endpoints, pairVars,
                 regLoopVars, ping, mdVars, svcVars>>
  /\ \/ /\ regURL = "null"
        /\ pc' = "file_config"
        /\ UNCHANGED <<err, regURL, registry, config, calls>>
     \/ /\ regURL = "empty"
        /\ Log("loadConfig")
        /\ \/ /\ Return("CONF_FILE")          \* loadConfig failed
              /\ UNCHANGED <<regURL, registry, config>>
           \/ /\ config' = TRUE
              /\ \E url \in {"null", "url"}, reg \in BOOLEAN :
                   /\ regURL' = url
                   /\ registry' = (url = "url" /\ reg)
                   /\ IF registry'
                        THEN pc' = "registry_env" /\ UNCHANGED err
                        ELSE Return("INVALID_ARG")
     \/ /\ regURL = "url"
        /\ \E reg \in BOOLEAN :
             /\ registry' = reg
             /\ IF reg
                  THEN pc' = "registry_env" /\ UNCHANGED err
                  ELSE Return("INVALID_ARG")
        /\ UNCHANGED <<regURL, config, calls>>
  /\ UNCHANGED <<devVars, runVars, nv, cl>>

\* lines 593-613: the retry count of the registry wait loop
RegistryRetries(e) == IF e.set /\ e.rc > 0 THEN e.rc ELSE DefaultRegistryRetries

RegistryEnv ==
  /\ pc = "registry_env"
  /\ \E e \in RetryCountEnv : errc' = e /\ retries' = RegistryRetries(e)
  /\ regPings' = 0
  /\ pc' = "registry_ping"
  /\ UNCHANGED <<err, confVars, ping, mdVars, svcVars, calls>>
  /\ UNCHANGED <<devVars, runVars, nv, cl>>

\* line 615: while (!devsdk_registry_ping (...) && --retries) nanosleep
RegistryLoopAgain(r) == r - 1 # 0

RegistryPing ==
  /\ pc = "registry_ping"
  /\ regPings' = regPings + 1
  /\ UNCHANGED errc
  /\ \/ /\ err' = "OK"                         \* ping answered
        /\ pc' = "registry_ready"
        /\ UNCHANGED retries
     \/ /\ err' = "HTTP_ERROR"                 \* ping failed
        /\ retries' = retries - 1
        /\ pc' = IF RegistryLoopAgain(retries) THEN "registry_ping" ELSE "registry_ready"
  /\ UNCHANGED <<confVars, ping, mdVars, svcVars, calls>>
  /\ UNCHANGED <<devVars, runVars, nv, cl>>

\* RegistryReady without the test of retries == 0
RegistryReady_NoCheck ==
  /\ pc = "registry_ready"
  /\ pc' = "get_config"
  /\ UNCHANGED <<err, regLoopVars, confVars, ping, mdVars, svcVars, calls>>
  /\ UNCHANGED <<devVars, runVars, nv, cl>>

\* lines 619-626
RegistryReady ==
  /\ pc = "registry_ready"
  /\ IF retries = 0
       THEN Return("REMOTE_SERVER_DOWN") /\ UNCHANGED regLoopVars
       ELSE \* retries and the ping count are dead from here on
            /\ pc' = "get_config" /\ UNCHANGED err
            /\ errc' = NoEnv /\ retries' = 0 /\ regPings' = 0
  /\ UNCHANGED <<confVars, ping, mdVars, svcVars, calls>>
  /\ UNCHANGED <<devVars, runVars, nv, cl>>

\* lines 627-647: devsdk_registry_get_config and edgex_device_populateConfig
GetConfig ==
  /\ pc = "get_config"
  /\ stopconfig' = "false"
  /\ Log("get_config")
  /\ \/ /\ watching' = TRUE                    \* confpairs != NULL
        /\ \/ /\ \E c \in Configs : confpairs' = TomlPairs(c)
              /\ cfg' = PopulateConfig(confpairs')
              /\ pc' = "file_config"
              /\ err' = "OK"
           \/ /\ Return("BAD_CONFIG")          \* populateConfig failed
              /\ UNCHANGED <<cfg, confpairs>>
        /\ UNCHANGED uploadConfig
     \/ /\ uploadConfig' = TRUE                \* confpairs == NULL
        /\ err' = "OK"
        /\ pc' = "file_config"
        /\ UNCHANGED <<watching, cfg, confpairs>>
  /\ UNCHANGED <<regURL, registry, config, endpoints, envOver, regStore,
                 regLoopVars, ping, mdVars, svcVars>>
  /\ UNCHANGED <<devVars, runVars, nv, cl>>

\* lines 650-659: load the TOML file when the list does not come from the registry
FileConfig ==
  /\ pc = "file_config"
  /\ UNCHANGED <<regURL, registry, uploadConfig, stopconfig, watching, cfg, endpoints,
                 pairVars, regLoopVars, ping, mdVars, svcVars>>
  /\ IF uploadConfig \/ ~registry
       THEN IF ~config
              THEN /\ Log("loadConfig")
                   /\ \/ Return("CONF_FILE") /\ UNCHANGED config
                      \/ config' = TRUE /\ pc' = "parse_toml" /\ UNCHANGED err
              ELSE pc' = "parse_toml" /\ UNCHANGED <<err, config, calls>>
       ELSE pc' = "query_endpoints" /\ UNCHANGED <<err, config, calls>>
  /\ UNCHANGED <<devVars, runVars, nv, cl>>

\* lines 661-662: parseToml and populateConfig; the error is not examined here
ParseToml ==
  /\ pc = "parse_toml"
  /\ \E c \in Configs : confpairs' = TomlPairs(c)
  /\ cfg' = PopulateConfig(confpairs')
  /\ \/ UNCHANGED err
     \/ err' = "BAD_CONFIG"
  /\ pc' = IF uploadConfig THEN "put_config" ELSE "query_endpoints"
  /\ UNCHANGED <<regURL, registry, config, uploadConfig, stopconfig, watching, endpoints,
                 envOver, regStore, regLoopVars, ping, mdVars, svcVars, calls>>
  /\ UNCHANGED <<devVars, runVars, nv, cl>>

\* PutConfig with the list uploaded as parsed, the call of overrideConfig missing
PutConfig_NoOverride ==
  /\ pc = "put_config"
  /\ \E env \in PortOverrides : envOver' = env
  /\ Log("put_config")
  /\ \/ /\ RegistryPutConfig(confpairs)
        /\ err' = "OK"
        /\ pc' = "query_endpoints"
        /\ UNCHANGED confpairs
     \/ /\ Return("HTTP_ERROR")
        /\ confpairs' = <<>>
        /\ UNCHANGED regStore
  /\ UNCHANGED <<regURL, registry, config, uploadConfig, stopconfig, watching, cfg,
                 endpoints, regLoopVars, ping, mdVars, svcVars>>
  /\ UNCHANGED <<devVars, runVars, nv, cl>>

\* lines 664-676: overrideConfig and devsdk_registry_put_config
PutConfig ==
  /\ pc = "put_config"
  /\ \E env \in PortOverrides : envOver' = env
  /\ Log("put_config")
  /\ \/ /\ confpairs' = OverrideConfig(confpairs, envOver')
        /\ RegistryPutConfig(confpairs')
        /\ err' = "OK"
        /\ pc' = "query_endpoints"
     \/ /\ Return("HTTP_ERROR")
        /\ confpairs' = <<>>
        /\ UNCHANGED regStore
  /\ UNCHANGED <<regURL, registry, config, uploadConfig, stopconfig, watching, cfg,
                 endpoints, regLoopVars, ping, mdVars, svcVars>>
  /\ UNCHANGED <<devVars, runVars, nv, cl>>

\* lines 685-695: endpoints from the registry (failures ignored) or from Clients
QueryEndpoints ==
  /\ pc = "query_endpoints"
  /\ \E e \in EndpointSets : endpoints' = e
  /\ pc' = "remote_logging"
  /\ UNCHANGED <<err, regURL, registry, config, uploadConfig, stopconfig, watching, cfg,
                 pairVars, regLoopVars, ping, mdVars, svcVars, calls>>
  /\ UNCHANGED <<devVars, runVars, nv, cl>>

\* --------------------------------------------------------------- ping_client
\* a call of ping_client (..., ep, retries = config.service.connectretries, ...)
PingCall(s) ==
  /\ ping' = [svc |-> s, n |-> cfg.connectretries, retries |-> cfg.connectretries,
              gets |-> <<>>, sleeps |-> 0, interrupted |-> FALSE, result |-> "none"]
  /\ pc' = "ping_enter"

\* lines 279-286: the endpoint must have a host and a port
PingEnter ==
  /\ pc = "ping_enter"
  /\ IF endpoints[ping.svc]
       THEN pc' = "ping_get" /\ UNCHANGED <<err, ping>>
       ELSE /\ err' = "BAD_CONFIG"
            /\ ping' = [ping EXCEPT !.result = "badconfig"]
            /\ pc' = "ping_ret"
  /\ UNCHANGED <<confVars, regLoopVars, mdVars, svcVars, calls>>
  /\ UNCHANGED <<devVars, runVars, nv, cl>>

\* lines 290-296: one HTTP GET of /api/v1/ping
PingGet ==
  /\ pc = "ping_get"
  /\ \/ /\ err' = "OK"
        /\ ping' = [ping EXCEPT !.gets = Append(@, TRUE), !.result = "ok"]
        /\ pc' = "ping_ret"
     \/ /\ err' = "HTTP_ERROR"
        /\ ping' = [ping EXCEPT !.gets = Append(@, FALSE)]
        /\ pc' = "ping_retry"
  /\ UNCHANGED <<confVars, regLoopVars, mdVars, svcVars, calls>>
  /\ UNCHANGED <<devVars, runVars, nv, cl>>

\* the loop condition with --retries in place of retries--
PingLoopAgain_PreDecrement(r) == r - 1 # 0

\* line 297: the left operand of the loop condition, retries-- (tested before the decrement)
PingLoopAgain(r) == r # 0

\* PingRetry without the assignment of EDGEX_REMOTE_SERVER_DOWN at the failure exit
PingRetry_KeepsError ==
  /\ pc = "ping_retry"
  /\ \/ /\ ping.retries # 0
        /\ \/ /\ ping' = [ping EXCEPT !.retries = @ - 1, !.sleeps = @ + 1]
              /\ pc' = "ping_get"
           \/ /\ ping' = [ping EXCEPT !.retries = @ - 1, !.interrupted = TRUE,
                                      !.result = "down"]
              /\ pc' = "ping_ret"
     \/ /\ ping.retries = 0
        /\ ping' = [ping EXCEPT !.retries = @ - 1, !.result = "down"]
        /\ pc' = "ping_ret"
  /\ UNCHANGED <<err, confVars, regLoopVars, mdVars, svcVars, calls>>
  /\ UNCHANGED <<devVars, runVars, nv, cl>>

\* lines 297-301: while (retries-- && nanosleep (&delay, NULL) == 0), then the failure exit
PingRetry ==
  /\ pc = "ping_retry"
  /\ \/ /\ PingLoopAgain(ping.retries)
        /\ \/ /\ ping' = [ping EXCEPT !.retries = @ - 1, !.sleeps = @ + 1]   \* slept
              /\ pc' = "ping_get"
              /\ UNCHANGED err
           \/ /\ ping' = [ping EXCEPT !.retries = @ - 1, !.interrupted = TRUE,
                                      !.result = "down"]   \* nanosleep returned -1
              /\ err' = "REMOTE_SERVER_DOWN"
              /\ pc' = "ping_ret"
     \/ /\ ~PingLoopAgain(ping.retries)
        /\ ping' = [ping EXCEPT !.retries = @ - 1, !.result = "down"]
        /\ err' = "REMOTE_SERVER_DOWN"
        /\ pc' = "ping_ret"
  /\ UNCHANGED <<confVars, regLoopVars, mdVars, svcVars, calls>>
  /\ UNCHANGED <<devVars, runVars, nv, cl>>

\* lines 697-699: remote logging wanted: ping support-logging
RemoteLogging ==
  /\ pc = "remote_logging"
  /\ IF cfg.useremote
       THEN PingCall("logging") /\ Log("ping_logging") /\ UNCHANGED confpairs
       ELSE /\ pc' = "start_configured"
            /\ confpairs' = <<>>                \* line 739: devsdk_nvpairs_free
            /\ UNCHANGED <<ping, calls>>
  /\ UNCHANGED <<err, cfgVars, envOver, regStore, regLoopVars, mdVars, svcVars>>
  /\ UNCHANGED <<devVars, runVars, nv, cl>>

\* lines 699-725: the result of the logging ping
AfterPingLogging ==
  /\ pc = "ping_ret" /\ ping.svc = "logging"
  /\ IF ping.result = "ok"
       THEN pc' = "start_configured" /\ ping' = NoPing /\ confpairs' = <<>>
       ELSE pc' = "done" /\ UNCHANGED <<ping, confpairs>>
  /\ UNCHANGED <<err, cfgVars, envOver, regStore, regLoopVars, mdVars, svcVars, calls>>
  /\ UNCHANGED <<devVars, runVars, nv, cl>>

\* ----------------------------------------------------------- startConfigured
\* lines 309-317: config.service.host if set, else the OS node name
ResolvedHost == IF cfg.host # "NULL" THEN cfg.host ELSE "nodename"

\* lines 304-324: enter startConfigured and ping core-data
StartConfigured ==
  /\ pc = "start_configured"
  /\ PingCall("data")
  /\ Log("ping_data")
  /\ UNCHANGED <<err, confVars, regLoopVars, mdVars, svcVars>>
  /\ UNCHANGED <<devVars, runVars, nv, cl>>

\* lines 324-328: data ping result; then ping core-metadata
AfterPingData ==
  /\ pc = "ping_ret" /\ ping.svc = "data"
  /\ IF ping.result = "ok"
       THEN PingCall("metadata") /\ Log("ping_metadata")
       ELSE pc' = "done" /\ UNCHANGED <<ping, calls>>
  /\ UNCHANGED <<err, confVars, regLoopVars, mdVars, svcVars>>
  /\ UNCHANGED <<devVars, runVars, nv, cl>>

\* lines 328-333: metadata ping result; *err = EDGEX_OK
AfterPingMetadata ==
  /\ pc = "ping_ret" /\ ping.svc = "metadata"
  /\ IF ping.result = "ok"
       THEN pc' = "get_deviceservice" /\ err' = "OK" /\ ping' = NoPing
       ELSE pc' = "done" /\ UNCHANGED <<err, ping>>
  /\ UNCHANGED <<confVars, regLoopVars, mdVars, svcVars, calls>>
  /\ UNCHANGED <<devVars, runVars, nv, cl>>

\* metadata service, as the operations of the metadata client act on it
MdGetDeviceService == IF mdDS THEN [exists |-> TRUE, addressable |-> mdAddr] ELSE NoDS
MdGetAddressable == mdAddr
MdStoreAddressable(a) == mdAddr' = a
MdStoreDeviceService == mdDS' = TRUE

\* the comparison of line 403 without the strcmp of the address
AddressableDiffers_PortOnly(a, host, port) == a.port # port

\* line 403: the stored addressable differs from the current host or port
AddressableDiffers(a, host, port) == a.port # port \/ a.address # host

\* lines 358-366: the addressable built for this service
NewAddressable == [address |-> ResolvedHost, port |-> cfg.port]

\* lines 337-346: edgex_metadata_client_get_deviceservice
GetDeviceService ==
  /\ pc = "get_deviceservice"
  /\ Log("get_deviceservice")
  /\ \/ /\ Return("HTTP_ERROR")
        /\ UNCHANGED <<dsFound, ds>>
     \/ /\ err' = "OK"
        /\ ds' = MdGetDeviceService
        /\ dsFound' = IF ds'.exists THEN "record" ELSE "null"
        /\ pc' = IF ds'.exists THEN "compare_addressable" ELSE "get_addressable"
  /\ UNCHANGED <<confVars, regLoopVars, ping, addr, mdDS, mdAddr, svcVars>>
  /\ UNCHANGED <<devVars, runVars, nv, cl>>

\* lines 348-356: edgex_metadata_client_get_addressable
GetAddressable ==
  /\ pc = "get_addressable"
  /\ Log("get_addressable")
  /\ \/ /\ Return("HTTP_ERROR")
        /\ UNCHANGED addr
     \/ /\ err' = "OK"
        /\ addr' = MdGetAddressable
        /\ pc' = IF addr' = NoAddr THEN "create_addressable" ELSE "create_deviceservice"
  /\ UNCHANGED <<confVars, regLoopVars, ping, dsFound, ds, mdDS, mdAddr, svcVars>>
  /\ UNCHANGED <<devVars, runVars, nv, cl>>

\* lines 356-375: build the addressable and edgex_metadata_client_create_addressable
CreateAddressable ==
  /\ pc = "create_addressable"
  /\ addr' = NewAddressable
  /\ Log("create_addressable")
  /\ \/ /\ Return("HTTP_ERROR")
        /\ UNCHANGED mdAddr
     \/ /\ err' = "OK"
        /\ MdStoreAddressable(addr')
        /\ pc' = "create_deviceservice"
  /\ UNCHANGED <<confVars, regLoopVars, ping, dsFound, ds, mdDS, svcVars>>
  /\ UNCHANGED <<devVars, runVars, nv, cl>>

\* lines 377-400: build the record and edgex_metadata_client_create_deviceservice
CreateDeviceService ==
  /\ pc = "create_deviceservice"
  /\ ds' = [exists |-> TRUE, addressable |-> addr]
  /\ Log("create_deviceservice")
  /\ \/ /\ Return("HTTP_ERROR")
        /\ UNCHANGED mdDS
     \/ /\ err' = "OK"
        /\ MdStoreDeviceService
        /\ pc' = "profiles_upload"
  /\ UNCHANGED <<confVars, regLoopVars, ping, dsFound, addr, mdAddr, svcVars>>
  /\ UNCHANGED <<devVars, runVars, nv, cl>>

\* lines 401-416: an existing record: update its addressable if host or port changed
CompareAddressable ==
  /\ pc = "compare_addressable"
  /\ IF AddressableDiffers(ds.addressable, ResolvedHost, cfg.port)
       THEN /\ ds' = [ds EXCEPT !.addressable = [address |-> ResolvedHost, port |-> cfg.port]]
            /\ Log("update_addressable")
            /\ \/ /\ Return("HTTP_ERROR")
                  /\ UNCHANGED mdAddr
               \/ /\ err' = "OK"
                  /\ MdStoreAddressable(ds'.addressable)
                  /\ pc' = "profiles_upload"
       ELSE /\ pc' = "profiles_upload"
            /\ UNCHANGED <<err, ds, mdAddr, calls>>
  /\ UNCHANGED <<confVars, regLoopVars, ping, dsFound, addr, mdDS, svcVars>>
  /\ UNCHANGED <<devVars, runVars, nv, cl>>

\* lines 417-425: free ds; edgex_device_profiles_upload
ProfilesUpload ==
  /\ pc = "profiles_upload"
  /\ ds' = NoDS /\ addr' = NoAddr
  /\ Log("profiles_upload")
  /\ \/ Return("HTTP_ERROR")
     \/ err' = "OK" /\ pc' = "get_devices"
  /\ UNCHANGED <<confVars, regLoopVars, ping, dsFound, mdDS, mdAddr, svcVars>>
  /\ UNCHANGED <<devVars, runVars, nv, cl>>

\* GetDevices with the call of edgex_devmap_populate_devices missing
GetDevices_NoPopulate ==
  /\ pc = "get_devices"
  /\ Log("get_devices")
  /\ \/ /\ Return("HTTP_ERROR")
        /\ UNCHANGED devsReturned
     \/ /\ \E k \in 0..MaxDevices : devsReturned' = 1..k
        /\ err' = "OK"
        /\ pc' = "rest_server_create"
  /\ UNCHANGED <<confVars, regLoopVars, ping, mdVars, svcVars, devices, cbDelivered, runVars,
                 nv, cl>>

\* lines 427-439: edgex_metadata_client_get_devices and edgex_devmap_populate_devices
GetDevices ==
  /\ pc = "get_devices"
  /\ Log("get_devices")
  /\ \/ /\ Return("HTTP_ERROR")
        /\ UNCHANGED <<devices, devsReturned>>
     \/ /\ \E k \in 0..MaxDevices : devsReturned' = 1..k
        /\ devices' = devices \cup devsReturned'   \* edgex_devmap_populate_devices
        /\ err' = "OK"
        /\ pc' = "rest_server_create"
  /\ UNCHANGED cbDelivered
  /\ UNCHANGED <<confVars, regLoopVars, ping, mdVars, svcVars>>
  /\ UNCHANGED <<runVars, nv, cl>>

\* RestServerCreate followed at once by the registration of every handler
RestServerCreate_AllHandlers ==
  /\ pc = "rest_server_create"
  /\ Log("rest_server_create")
  /\ \/ /\ Return("HTTP_SERVER_FAIL")
        /\ UNCHANGED <<daemon, handlers>>
     \/ /\ err' = "OK"
        /\ daemon' = TRUE
        /\ handlers' = handlers \cup RemainingHandlers
        /\ pc' = "register_callback"
  /\ UNCHANGED <<confVars, regLoopVars, ping, mdVars, initResult,
                 watchersFailed, schedulerStarted, registered>>
  /\ UNCHANGED <<devVars, runVars, nv, cl>>

\* lines 441-448: edgex_rest_server_create
RestServerCreate ==
  /\ pc = "rest_server_create"
  /\ Log("rest_server_create")
  /\ \/ /\ Return("HTTP_SERVER_FAIL")
        /\ UNCHANGED daemon
     \/ /\ err' = "OK"
        /\ daemon' = TRUE
        /\ pc' = "register_callback"
  /\ UNCHANGED <<confVars, regLoopVars, ping, mdVars, handlers, initResult,
                 watchersFailed, schedulerStarted, registered>>
  /\ UNCHANGED <<devVars, runVars, nv, cl>>

\* RegisterCallback with the configured devices processed before the handler is installed
RegisterCallback_Late ==
  /\ pc = "register_callback"
  /\ handlers' = handlers \cup {CallbackHandler}
  /\ calls' = calls \o <<"configured_devices", "register_callback">>
  /\ pc' = "driver_init"
  /\ UNCHANGED <<err, confVars, regLoopVars, ping, mdVars, daemon, initResult,
                 watchersFailed, schedulerStarted, registered>>
  /\ UNCHANGED <<devVars, runVars, nv, cl>>

\* lines 450-454: the callback handler
RegisterCallback ==
  /\ pc = "register_callback"
  /\ handlers' = handlers \cup {CallbackHandler}
  /\ Log("register_callback")
  /\ pc' = "configured_devices"
  /\ UNCHANGED <<err, confVars, regLoopVars, ping, mdVars, daemon, initResult,
                 watchersFailed, schedulerStarted, registered>>
  /\ UNCHANGED <<devVars, runVars, nv, cl>>

\* lines 456-466: edgex_device_process_configured_devices, when a file was loaded
ConfiguredDevices ==
  /\ pc = "configured_devices"
  /\ IF config
       THEN /\ Log("configured_devices")
            /\ \/ Return("HTTP_ERROR")
               \/ err' = "OK" /\ pc' = "driver_init"
       ELSE pc' = "driver_init" /\ UNCHANGED <<err, calls>>
  /\ UNCHANGED <<confVars, regLoopVars, ping, mdVars, svcVars>>
  /\ UNCHANGED <<devVars, runVars, nv, cl>>

\* DriverInit with the return after a false result missing
DriverInit_NoReturn ==
  /\ pc = "driver_init"
  /\ Log("driver_init")
  /\ \/ initResult' = "true" /\ UNCHANGED err
     \/ initResult' = "false" /\ err' = "DRIVER_UNSTART"
  /\ pc' = "get_watchers"
  /\ UNCHANGED <<confVars, regLoopVars, ping, mdVars, daemon, handlers,
                 watchersFailed, schedulerStarted, registered>>
  /\ UNCHANGED <<devVars, runVars, nv, cl>>

\* lines 468-475: the driver's init callback
DriverInit ==
  /\ pc = "driver_init"
  /\ Log("driver_init")
  /\ \/ /\ initResult' = "true"
        /\ pc' = "get_watchers"
        /\ UNCHANGED err
     \/ /\ initResult' = "false"
        /\ Return("DRIVER_UNSTART")
  /\ UNCHANGED <<confVars, regLoopVars, ping, mdVars, daemon, handlers,
                 watchersFailed, schedulerStarted, registered>>
  /\ UNCHANGED <<devVars, runVars, nv, cl>>

\* lines 477-489: edgex_metadata_client_get_watchers; an error is only logged
GetWatchers ==
  /\ pc = "get_watchers"
  /\ Log("get_watchers")
  /\ \/ err' = "OK" /\ UNCHANGED watchersFailed
     \/ err' = "HTTP_ERROR" /\ watchersFailed' = TRUE
  /\ pc' = "scheduler_start"
  /\ UNCHANGED <<confVars, regLoopVars, ping, mdVars, daemon, handlers, initResult,
                 schedulerStarted, registered>>
  /\ UNCHANGED <<devVars, runVars, nv, cl>>

\* lines 491-493: iot_scheduler_start
SchedulerStart ==
  /\ pc = "scheduler_start"
  /\ schedulerStarted' = TRUE
  /\ Log("scheduler_start")
  /\ pc' = "register_handlers"
  /\ UNCHANGED <<err, confVars, regLoopVars, ping, mdVars, daemon, handlers, initResult,
                 watchersFailed, registered>>
  /\ UNCHANGED <<devVars, runVars, nv, cl>>

\* lines 495-525: device, discovery, metrics, config, version and ping handlers
RegisterHandlers ==
  /\ pc = "register_handlers"
  /\ handlers' = handlers \cup RemainingHandlers
  /\ Log("register_handlers")
  /\ pc' = "register_service"
  /\ UNCHANGED <<err, confVars, regLoopVars, ping, mdVars, daemon, initResult,
                 watchersFailed, schedulerStarted, registered>>
  /\ UNCHANGED <<devVars, runVars, nv, cl>>

\* lines 527-551: devsdk_registry_register_service, when a registry is in use
RegisterService ==
  /\ pc = "register_service"
  /\ IF registry
       THEN /\ Log("register_service")
            /\ \/ /\ Return("HTTP_ERROR")
                  /\ UNCHANGED registered
               \/ /\ err' = "OK"
                  /\ registered' = TRUE
                  /\ pc' = "started"
       ELSE pc' = "started" /\ UNCHANGED <<err, registered, calls>>
  /\ UNCHANGED <<confVars, regLoopVars, ping, mdVars, daemon, handlers, initResult,
                 watchersFailed, schedulerStarted>>
  /\ UNCHANGED <<devVars, runVars, nv, cl>>

\* lines 741-750: back in devsdk_service_start: toml_free, log, return
ServiceStarted ==
  /\ pc = "started"
  /\ pc' = "done"
  /\ UNCHANGED <<err, confVars, regLoopVars, ping, mdVars, svcVars, calls>>
  /\ UNCHANGED <<devVars, runVars, nv, cl>>

\* --------------------------------------------------------------------- Spec
\* the callback handler, run by an HTTP server thread on a metadata callback:
\* a device is added to the device map or removed from it. Next is the bring-up
\* during which no callback is delivered; the thread runs in the steady state.
MetadataCallback ==
  /\ daemon /\ CallbackHandler \in handlers
  /\ \E d \in Devs : \/ devices' = devices \cup {d}
                      \/ devices' = devices \ {d}
  /\ post' = ProfileAfterRemoval(devices \ devices')
  /\ cbDelivered' = TRUE
  /\ UNCHANGED <<pc, err, confVars, regLoopVars, ping, mdVars, svcVars, calls,
                 devsReturned, force, work, dpc, postCalls, driverStop, nv, cl>>

Next ==
  \/ ServiceStart \/ ResolveRegistry \/ RegistryEnv \/ RegistryPing \/ RegistryReady
  \/ GetConfig \/ FileConfig \/ ParseToml \/ PutConfig \/ QueryEndpoints
  \/ RemoteLogging \/ AfterPingLogging
  \/ PingEnter \/ PingGet \/ PingRetry
  \/ StartConfigured \/ AfterPingData \/ AfterPingMetadata
  \/ GetDeviceService \/ GetAddressable \/ CreateAddressable \/ CreateDeviceService
  \/ CompareAddressable \/ ProfilesUpload \/ GetDevices
  \/ RestServerCreate \/ RegisterCallback \/ ConfiguredDevices \/ DriverInit
  \/ GetWatchers \/ SchedulerStart \/ RegisterHandlers \/ RegisterService
  \/ ServiceStarted

Spec == Init /\ [][Next]_vars

\* ======================================================= steady state and stop
\* ------------------------------------------------------- devsdk_post_readings
\* lines 776-781: the driver thread enters devsdk_post_readings and looks the
\* device up by name; an unknown device is logged and the call returns
PostReadings(devname, resname) ==
  /\ dpc = "idle"
  /\ initResult = "true" /\ driverStop = "none"
  /\ postCalls < MaxPostCalls
  /\ postCalls' = postCalls + 1
  /\ IF devname \in devices
       THEN /\ post' = [NoPost EXCEPT !.devname = devname, !.resname = resname,
                                       !.dev = TRUE, !.profile = "live"]
            /\ dpc' = "findcommand"
       ELSE /\ post' = [NoPost EXCEPT !.devname = devname, !.resname = resname,
                                       !.logged = "no such device"]
            /\ dpc' = "idle"
  /\ UNCHANGED <<pc, err, calls, startVars, stopconfig, svcVars, devices, cbDelivered,
                 force, work, driverStop>>

\* PostFindCommand going on to build the event whether or not a command was found
PostFindCommand_NoCheck ==
  /\ dpc = "findcommand"
  /\ post' = [post EXCEPT !.command = post.resname \in ProfileCommands,
                           !.profile = DeviceRelease(post.profile)]
  /\ dpc' = "process_event"
  /\ UNCHANGED <<pc, err, calls, startVars, stopconfig, svcVars, devices, cbDelivered,
                 force, work, postCalls, driverStop>>

\* lines 783-785, 800-803: edgex_deviceprofile_findcommand and
\* edgex_device_release; an unknown resource is logged and the call returns
PostFindCommand ==
  /\ dpc = "findcommand"
  /\ IF post.resname \in ProfileCommands
       THEN /\ post' = [post EXCEPT !.command = TRUE,
                                      !.profile = DeviceRelease(post.profile)]
            /\ dpc' = "process_event"
       ELSE /\ post' = [post EXCEPT !.logged = "no such resource",
                                      !.profile = DeviceRelease(post.profile)]
            /\ dpc' = "idle"
  /\ UNCHANGED <<pc, err, calls, startVars, stopconfig, svcVars, devices, cbDelivered,
                 force, work, postCalls, driverStop>>

\* lines 787-792: edgex_data_process_event reads the command descriptor and
\* returns an event or NULL
PostProcessEvent ==
  /\ dpc = "process_event"
  /\ \E event \in BOOLEAN :
       /\ post' = [post EXCEPT !.event = event, !.used = post.profile]
       /\ dpc' = IF event THEN "add_work" ELSE "idle"
  /\ UNCHANGED <<pc, err, calls, startVars, stopconfig, svcVars, devices, cbDelivered,
                 force, work, postCalls, driverStop>>

\* lines 793-798: iot_threadpool_add_work (doPost)
PostAddWork ==
  /\ dpc = "add_work"
  /\ work' = work + 1
  /\ post' = [post EXCEPT !.added = post.added + 1]
  /\ dpc' = "idle"
  /\ UNCHANGED <<pc, err, calls, startVars, stopconfig, svcVars, devices, cbDelivered,
                 force, postCalls, driverStop>>

\* lines 752-767: a pool thread runs doPost to its end; its error is local
DoPost ==
  /\ work > 0
  /\ work' = work - 1
  /\ UNCHANGED <<pc, err, calls, startVars, stopconfig, svcVars, devices, cbDelivered,
                 force, postVars, driverStop>>

\* --------------------------------------------------------- devsdk_service_stop
\* lines 807-810: entry, *err = EDGEX_OK
ServiceStop(f) ==
  /\ pc = "done"
  /\ force' = f
  /\ err' = "OK"
  /\ pc' = "stopconfig"
  /\ UNCHANGED <<calls, startVars, stopconfig, svcVars, devices, cbDelivered,
                 work, postVars, driverStop>>

\* lines 811-814: the config-watch stop flag, when it was allocated
StopConfig ==
  /\ pc = "stopconfig"
  /\ IF stopconfig # "null"
       THEN stopconfig' = "true" /\ Log("stopconfig_set")
       ELSE UNCHANGED <<stopconfig, calls>>
  /\ pc' = "scheduler_stop"
  /\ UNCHANGED <<err, startVars, svcVars, devices, cbDelivered, runVars>>

\* lines 815-818: svc->scheduler is allocated by devsdk_service_new (line 216)
SchedulerStop ==
  /\ pc = "scheduler_stop"
  /\ schedulerStarted' = FALSE
  /\ Log("scheduler_stop")
  /\ pc' = "rest_server_destroy"
  /\ UNCHANGED <<err, startVars, stopconfig, daemon, handlers, registered, devices,
                 cbDelivered, runVars>>

\* lines 819-822: edgex_rest_server_destroy, when the server was created
RestServerDestroy ==
  /\ pc = "rest_server_destroy"
  /\ IF daemon
       THEN daemon' = FALSE /\ handlers' = {} /\ Log("rest_server_destroy")
       ELSE UNCHANGED <<daemon, handlers, calls>>
  /\ pc' = "driver_stop"
  /\ UNCHANGED <<err, startVars, stopconfig, schedulerStarted, registered, devices,
                 cbDelivered, runVars>>

\* DriverStop with the device map cleared before the driver is stopped
DriverStop_AfterClear ==
  /\ pc = "driver_stop"
  /\ force \/ dpc = "idle"
  /\ devices' = {}
  /\ driverStop' = IF force THEN "true" ELSE "false"
  /\ calls' = calls \o <<"devmap_clear", "driver_stop">>
  /\ pc' = "deregister"
  /\ UNCHANGED <<err, startVars, stopconfig, svcVars, cbDelivered, force, work, postVars>>

\* line 823: svc->userfns.stop (svc->userdata, force). The driver begins no
\* call of devsdk_post_readings once its stop callback has been called, and
\* the callback waits for a call in progress unless force is set.
DriverStop ==
  /\ pc = "driver_stop"
  /\ force \/ dpc = "idle"
  /\ driverStop' = IF force THEN "true" ELSE "false"
  /\ Log("driver_stop")
  /\ pc' = "devmap_clear"
  /\ UNCHANGED <<err, startVars, stopconfig, svcVars, devVars, force, work, postVars>>

\* line 824: edgex_devmap_clear
DevmapClear ==
  /\ pc = "devmap_clear"
  /\ devices' = {}
  /\ post' = ProfileAfterRemoval(devices)
  /\ Log("devmap_clear")
  /\ pc' = "deregister"
  /\ UNCHANGED <<err, startVars, stopconfig, svcVars, cbDelivered, force, work, dpc,
                 postCalls, driverStop>>

\* lines 825-832: devsdk_registry_deregister_service; a failure is logged
Deregister ==
  /\ pc = "deregister"
  /\ IF registry
       THEN /\ Log("deregister_service")
            /\ \/ err' = "OK" /\ registered' = FALSE
               \/ err' = "HTTP_ERROR" /\ UNCHANGED registered
       ELSE UNCHANGED <<err, registered, calls>>
  /\ pc' = "scheduler_free"
  /\ UNCHANGED <<startVars, stopconfig, daemon, handlers, schedulerStarted, devVars, runVars>>

\* line 833: iot_scheduler_free
SchedulerFree ==
  /\ pc = "scheduler_free"
  /\ Log("scheduler_free")
  /\ pc' = "threadpool_wait"
  /\ UNCHANGED <<err, startVars, stopconfig, svcVars, devVars, runVars>>

\* line 834: iot_threadpool_wait returns once no work is queued or executing
ThreadpoolWait ==
  /\ pc = "threadpool_wait"
  /\ work = 0
  /\ Log("threadpool_wait")
  /\ pc' = "stop_return"
  /\ UNCHANGED <<err, startVars, stopconfig, svcVars, devVars, runVars>>

\* lines 835-836: the last log line and the return
StopReturn ==
  /\ pc = "stop_return"
  /\ pc' = "stopped"
  /\ UNCHANGED <<err, calls, startVars, stopconfig, svcVars, devVars, runVars>>

\* --------------------------------------------------------- devsdk_service_free
\* lines 838-854: after devsdk_service_stop has returned, or directly after a
\* devsdk_service_start that failed.  The device map, the pools, the registry
\* client, the configuration, the stop flag and the service record are freed;
\* the stop flag is not written
ServiceFree ==
  /\ pc = "stopped" \/ (pc = "done" /\ err # "OK")
  /\ dpc = "idle" /\ work = 0
  /\ devices' = {}
  /\ pc' = "freed"
  /\ UNCHANGED <<err, calls, startVars, stopconfig, svcVars, cbDelivered, runVars>>

\* the service after devsdk_service_start has returned: started from a file,
\* started with a registry, failed at get_devices without a registry, or
\* failed at get_deviceservice with the registry's configuration subscribed
Started == {"file", "registry", "failed"}
BroughtUp(s) ==
  /\ pc = "done"
  /\ err = IF s = "failed" THEN "HTTP_ERROR" ELSE "OK"
  /\ regURL = IF s = "registry" THEN "url" ELSE "null"
  /\ registry = (s = "registry")
  /\ config = (s # "registry")
  /\ uploadConfig = FALSE
  /\ stopconfig = IF s = "registry" THEN "false" ELSE "null"
  /\ watching = (s = "registry")
  /\ cfg = [host |-> "cfghost", port |-> 1, connectretries |-> 0, useremote |-> FALSE]
  /\ endpoints = [data |-> TRUE, metadata |-> TRUE, logging |-> (s # "registry")]
  /\ confpairs = <<>>
  /\ envOver = "unset"
  /\ regStore = EmptyStore
  /\ errc = NoEnv
  /\ retries = 0
  /\ regPings = 0
  /\ ping = NoPing
  /\ dsFound = "record"
  /\ ds = NoDS
  /\ addr = NoAddr
  /\ mdDS = TRUE
  /\ mdAddr = [address |-> "cfghost", port |-> 1]
  /\ daemon = (s # "failed")
  /\ handlers = IF s = "failed" THEN {} ELSE {CallbackHandler} \cup RemainingHandlers
  /\ initResult = IF s = "failed" THEN "none" ELSE "true"
  /\ watchersFailed = FALSE
  /\ schedulerStarted = (s # "failed")
  /\ registered = (s = "registry")
  /\ calls = <<"threadpool_start">>
             \o (IF s = "registry" THEN <<"get_config">> ELSE <<"loadConfig">>)
             \o <<"ping_data", "ping_metadata", "get_deviceservice">>
             \o (IF s = "failed" THEN <<>> ELSE <<"update_addressable">>)
             \o <<"profiles_upload", "get_devices">>
             \o (IF s = "failed" THEN <<>> ELSE <<"rest_server_create", "register_callback">>)
             \o (IF s = "file" THEN <<"configured_devices">> ELSE <<>>)
             \o (IF s = "failed" THEN <<>>
                   ELSE <<"driver_init", "get_watchers", "scheduler_start",
                          "register_handlers">>)
             \o (IF s = "registry" THEN <<"register_service">> ELSE <<>>)
  /\ devices = IF s = "failed" THEN {} ELSE {1}
  /\ devsReturned = devices
  /\ cbDelivered = FALSE
  /\ force = FALSE
  /\ work = 0
  /\ dpc = "idle"
  /\ post = NoPost
  /\ postCalls = 0
  /\ driverStop = "none"

FailedWatching ==
  /\ pc = "done"
  /\ err = "HTTP_ERROR"
  /\ regURL = "url"
  /\ registry = TRUE
  /\ config = FALSE
  /\ uploadConfig = FALSE
  /\ stopconfig = "false"
  /\ watching = TRUE
  /\ cfg = [host |-> "cfghost", port |-> 1, connectretries |-> 0, useremote |-> FALSE]
  /\ endpoints = [data |-> TRUE, metadata |-> TRUE, logging |-> TRUE]
  /\ confpairs = <<>>
  /\ envOver = "unset"
  /\ regStore = EmptyStore
  /\ errc = NoEnv
  /\ retries = 0
  /\ regPings = 0
  /\ ping = NoPing
  /\ dsFound = "none"
  /\ ds = NoDS
  /\ addr = NoAddr
  /\ mdDS = TRUE
  /\ mdAddr = [address |-> "cfghost", port |-> 1]
  /\ daemon = FALSE
  /\ handlers = {}
  /\ initResult = "none"
  /\ watchersFailed = FALSE
  /\ schedulerStarted = FALSE
  /\ registered = FALSE
  /\ calls = <<"threadpool_start", "get_config", "ping_data", "ping_metadata",
               "get_deviceservice">>
  /\ devices = {}
  /\ devsReturned = {}
  /\ cbDelivered = FALSE
  /\ force = FALSE
  /\ work = 0
  /\ dpc = "idle"
  /\ post = NoPost
  /\ postCalls = 0
  /\ driverStop = "none"

InitRun == nv = NoCall /\ cl = NoCmdLine /\ ((\E s \in Started : BroughtUp(s)) \/ FailedWatching)

NextRun ==
  \/ \E d \in DevNames, r \in Resources : PostReadings(d, r)
  \/ PostFindCommand \/ PostProcessEvent \/ PostAddWork \/ DoPost
  \/ MetadataCallback
  \/ \E f \in BOOLEAN : ServiceStop(f)
  \/ StopConfig \/ SchedulerStop \/ RestServerDestroy \/ DriverStop \/ DevmapClear
  \/ Deregister \/ SchedulerFree \/ ThreadpoolWait \/ StopReturn
  \/ ServiceFree

SpecRun == InitRun /\ [][NextRun]_vars

\* ========================================================= devsdk-base.c calls
\* devsdk_nvpairs_dup of the list; the copy and the original are then compared
NvpairsDup ==
  /\ nv.call = "dup" /\ nv.stage = "input"
  /\ nv' = [nv EXCEPT !.stage = "duped", !.l1 = devsdk_nvpairs_dup(nv.l1), !.l2 = nv.l1]
  /\ UNCHANGED <<pc, err, calls, cfgVars, pairVars, regLoopVars, ping, mdVars, svcVars,
                 devVars, runVars, cl>>

\* devsdk_nvpairs_equal of two lists, or of a copy and its original
NvpairsEqual ==
  /\ \/ nv.call = "equal" /\ nv.stage = "input"
     \/ nv.call = "dup" /\ nv.stage = "duped"
  /\ nv' = [nv EXCEPT !.stage = "returned", !.ret = devsdk_nvpairs_equal(nv.l1, nv.l2)]
  /\ UNCHANGED <<pc, err, calls, cfgVars, pairVars, regLoopVars, ping, mdVars, svcVars,
                 devVars, runVars, cl>>

\* one of the typed accessors
NvpairsTypedValue ==
  /\ nv.call \in Accessors /\ nv.stage = "input"
  /\ LET r == CASE nv.call = "long" -> devsdk_nvpairs_long_value(nv.l1, nv.name, nv.val)
                [] nv.call = "ulong" -> devsdk_nvpairs_ulong_value(nv.l1, nv.name, nv.val)
                [] nv.call = "float" -> devsdk_nvpairs_float_value(nv.l1, nv.name, nv.val)
     IN nv' = [nv EXCEPT !.stage = "returned", !.ret = r.ret, !.val = r.val]
  /\ UNCHANGED <<pc, err, calls, cfgVars, pairVars, regLoopVars, ping, mdVars, svcVars,
                 devVars, runVars, cl>>

\* a service just constructed, and one call into devsdk-base.c
InitPairs ==
  /\ ServiceNew
  /\ regURL = "null" /\ ~mdDS /\ mdAddr = NoAddr
  /\ nv \in NvCalls
  /\ cl = NoCmdLine

NextPairs == NvpairsDup \/ NvpairsEqual \/ NvpairsTypedValue

SpecPairs == InitPairs /\ [][NextPairs]_vars

\* ================================================================ command line
\* lines 126-161: the loop of processCmdLine takes one more turn
CmdLineArg ==
  /\ cl.stage = "loop"
  /\ cl.result /\ cl.n < cl.argc
  /\ cl' = processArg(cl)
  /\ UNCHANGED <<pc, err, calls, cfgVars, pairVars, regLoopVars, ping, mdVars, svcVars,
                 devVars, runVars, nv>>

\* lines 162-163, 195-199: processCmdLine returns; on false devsdk_service_new
\* fails with EDGEX_INVALID_ARG
CmdLineReturn ==
  /\ cl.stage = "loop"
  /\ ~(cl.result /\ cl.n < cl.argc)
  /\ cl' = [cl EXCEPT !.stage = "returned",
                       !.err = IF cl.result THEN "OK" ELSE "INVALID_ARG"]
  /\ UNCHANGED <<pc, err, calls, cfgVars, pairVars, regLoopVars, ping, mdVars, svcVars,
                 devVars, runVars, nv>>

\* devsdk_service_new called with a command line
InitArgs ==
  /\ ServiceNew
  /\ regURL = "null" /\ ~mdDS /\ mdAddr = NoAddr
  /\ nv = NoCall
  /\ cl \in CmdLines(MaxArgs)

NextArgs == CmdLineArg \/ CmdLineReturn

SpecArgs == InitArgs /\ [][NextArgs]_vars

\* =================================================================== claims
ReconcileOps == {"get_deviceservice", "get_addressable", "create_addressable",
                 "create_deviceservice", "update_addressable"}
MetadataOps == ReconcileOps \cup {"profiles_upload", "get_devices"}

\* the order of bring-up as the specification lists it
BringUpOrder == <<"ping_data", "ping_metadata", "reconcile", "profiles_upload",
                  "get_devices", "rest_server_create", "register_callback",
                  "configured_devices", "driver_init", "get_watchers",
                  "scheduler_start", "register_handlers", "register_service">>
StepOf(op) == IF op \in ReconcileOps THEN "reconcile" ELSE op
IsStep(op) == \E k \in 1..Len(BringUpOrder) : BringUpOrder[k] = StepOf(op)
Rank(op) == CHOOSE k \in 1..Len(BringUpOrder) : BringUpOrder[k] = StepOf(op)
\* configured-device processing needs a loaded file, registration a registry
StepApplies(k) ==
  /\ (BringUpOrder[k] = "configured_devices" => config)
  /\ (BringUpOrder[k] = "register_service" => registry)

\* C1: the bring-up steps executed occur in the listed order: a step is never
\* followed by an earlier one, none is repeated (the reconcile step is made of
\* several metadata operations), none that applies is skipped, and a start that
\* reaches its end has executed them all.
C1_BringUpOrder ==
  LET steps == SelectSeq(calls, IsStep)
      rank == [i \in 1..Len(steps) |-> Rank(steps[i])]
      done == {rank[i] : i \in 1..Len(steps)}
  IN /\ \A i \in 1..(Len(steps) - 1) :
          \/ rank[i] < rank[i + 1]
          \/ /\ rank[i] = rank[i + 1]
             /\ steps[i + 1] \in ReconcileOps
             /\ \A h \in 1..i : steps[h] # steps[i + 1]
     /\ \A k \in done : \A h \in 1..(k - 1) : StepApplies(h) => h \in done
     /\ pc = "started" => \A k \in 1..Len(BringUpOrder) : StepApplies(k) => k \in done

C1_Witness == pc = "started" /\ config /\ registry /\ Called("register_service")
                /\ Called("configured_devices")

\* C2: while driver init has not returned true, no handler other than the
\* callback handler is registered.
C2_HandlersAfterInit == (handlers \ {CallbackHandler} # {}) => initResult = "true"

C2_Witness == "device" \in handlers /\ initResult = "true"

\* C3: after a start that returns no error, the addressable stored in metadata
\* under the service name has the configured port and the resolved host.
C3_AddressableCurrent ==
  (pc = "done" /\ err = "OK") =>
    mdAddr = [address |-> ResolvedHost, port |-> cfg.port]

\* C4: a failed get_watchers, every other step succeeding, is not fatal: the
\* scheduler is started, the remaining handlers are registered and start
\* returns error code 0.
C4_WatcherFailureNotFatal ==
  (pc = "done" /\ watchersFailed /\ (registry => registered)) =>
    /\ schedulerStarted
    /\ RemainingHandlers \subseteq handlers
    /\ err = "OK"

\* C5: when driver init returns false, start has failed with DRIVER_UNSTART,
\* only the callback handler is registered, and the scheduler, get_watchers and
\* the registry registration never happen.
C5_DriverRejects ==
  initResult = "false" =>
    /\ pc = "done" /\ err = "DRIVER_UNSTART"
    /\ daemon /\ handlers = {CallbackHandler}
    /\ ~schedulerStarted
    /\ ~Called("get_watchers") /\ ~Called("scheduler_start")
    /\ ~Called("register_handlers")
    /\ ~registered /\ ~Called("register_service")

C5_Witness == initResult = "false" /\ pc = "done"

\* C6: when the data service fails every ping attempt, start fails with
\* REMOTE_SERVER_DOWN, the HTTP server is never created, metadata is never
\* pinged and no metadata operation is performed.
DataDown == ping.svc = "data" /\ ping.result = "down"
C6_DataDown ==
  DataDown =>
    /\ pc \in {"ping_ret", "done"}
    /\ err = "REMOTE_SERVER_DOWN"
    /\ \A i \in 1..Len(ping.gets) : ~ping.gets[i]
    /\ ~daemon /\ ~Called("rest_server_create")
    /\ ~Called("ping_metadata")
    /\ \A op \in MetadataOps \cup {"configured_devices", "get_watchers"} : ~Called(op)
    /\ handlers = {} /\ initResult = "none"

C6_Witness == DataDown /\ pc = "done" /\ Len(ping.gets) > 1

\* C7: with an existing device-service record, update_addressable is called, with
\* the configured port and the resolved host, exactly when the record's
\* addressable differs from them; create_addressable and create_deviceservice are
\* never called; and when host and port match the reconcile step writes nothing.
C7_UpdateIffDiffers ==
  /\ [][pc = "compare_addressable" =>
          LET differs == \/ ds.addressable.port # cfg.port
                         \/ ds.addressable.address # ResolvedHost
          IN /\ differs => /\ calls' = Append(calls, "update_addressable")
                           /\ ds'.addressable = [address |-> ResolvedHost, port |-> cfg.port]
                           /\ (err' = "OK" => mdAddr' = ds'.addressable)
             /\ ~differs => UNCHANGED <<calls, mdDS, mdAddr>>]_vars
  /\ [](dsFound = "record" =>
          /\ ~Called("get_addressable")
          /\ ~Called("create_addressable") /\ ~Called("create_deviceservice")
          /\ \A i, j \in 1..Len(calls) :
               (calls[i] = "update_addressable" /\ calls[j] = "update_addressable") => i = j
          /\ (Called("update_addressable") => pc # "compare_addressable"))

C7_Witness == dsFound = "record" /\ Called("update_addressable") /\ pc = "profiles_upload"
                /\ mdAddr = [address |-> ResolvedHost, port |-> cfg.port]

\* C8: with a registry configured and every registry ping failed, start fails
\* with REMOTE_SERVER_DOWN; get_config is never called, neither data nor metadata
\* is pinged and the HTTP server is never created.
RegistryDown == registry /\ regPings > 0 /\ retries = 0
C8_RegistryDown ==
  RegistryDown =>
    /\ pc \in {"registry_ready", "done"}
    /\ (pc = "done" => err = "REMOTE_SERVER_DOWN")
    /\ ~Called("get_config") /\ stopconfig = "null"
    /\ ~Called("ping_data") /\ ~Called("ping_metadata") /\ ping = NoPing
    /\ ~daemon /\ ~Called("rest_server_create")

C8_Witness == RegistryDown /\ pc = "done"

\* C9: with the registry unreachable, start fails with REMOTE_SERVER_DOWN after
\* N+1 registry pings (one initial ping and N retries), N being
\* edgex_registry_retry_count when it is a positive integer and 5 otherwise.
C9_RetryCount == IF errc.set /\ errc.rc > 0 THEN errc.rc ELSE DefaultRegistryRetries
C9_RegistryAttempts ==
  (RegistryDown /\ pc = "done") =>
    /\ err = "REMOTE_SERVER_DOWN"
    /\ regPings = C9_RetryCount + 1

\* C10 as stated: ping_client stops at the first successful GET, and when every
\* GET fails it returns REMOTE_SERVER_DOWN after exactly N+1 attempts, having
\* slept between attempts and not after the last one.
PingStopsAtSuccess ==
  /\ \A i \in 1..(Len(ping.gets) - 1) : ~ping.gets[i]
  /\ (ping.result = "ok" <=> (ping.gets # <<>> /\ ping.gets[Len(ping.gets)]))
  /\ (ping.result = "ok" => pc = "ping_ret" /\ err = "OK")
PairSet(list) == {list[i] : i \in 1..Len(list)}
PutConfigCalls == Len(SelectSeq(calls, LAMBDA op : op = "put_config"))

\* C11 as stated: on a registry cold start the TOML file is loaded, put_config
\* is called exactly once and the registry then holds, as a set, exactly the
\* list parsed from the TOML file.
C11_UploadsParsedList ==
  /\ [][pc = "put_config" /\ pc' = "query_endpoints" =>
          PairSet(RegistryGetConfig'.pairs) = PairSet(confpairs)]_vars
  /\ [](PutConfigCalls <= 1)

\* C11 amended: on a registry cold start (get_config returned nothing) the TOML
\* file is loaded and put_config is called exactly once; when it succeeds a
\* later get_config returns the TOML-parsed list with the environment override
\* of Service/Port applied, which is the parsed list itself only when no
\* override is set.
C11_UploadsOverriddenList ==
  /\ [][pc = "put_config" =>
          /\ uploadConfig /\ config
          /\ calls' = Append(calls, "put_config")
          /\ PutConfigCalls' = 1
          /\ pc' = "query_endpoints" =>
                /\ RegistryGetConfig'.has
                /\ \A q \in PairSet(RegistryGetConfig'.pairs) :
                      \E i \in 1..Len(confpairs) :
                        /\ q.name = confpairs[i].name
                        /\ q.value = IF q.name = "Service/Port" /\ envOver' # "unset"
                                       THEN envOver' ELSE confpairs[i].value
                /\ \A i \in 1..Len(confpairs) :
                      \E q \in PairSet(RegistryGetConfig'.pairs) : q.name = confpairs[i].name]_vars
  /\ [](PutConfigCalls <= 1)
  /\ [](uploadConfig /\ pc = "start_configured" => PutConfigCalls = 1)

\* a cold start uploaded a list whose port is the override, not the file's
C11_Witness ==
  /\ pc = "query_endpoints"
  /\ uploadConfig
  /\ RegistryGetConfig.has
  /\ envOver # "unset"
  /\ PairValue(RegistryGetConfig.pairs, "Service/Port") # ToString(cfg.port)
\* ------------------------------------------------------------------------ C12
\* C12: whenever startConfigured is entered, the metadata and the data endpoint
\* both have a host and a non-zero port; in particular with a registry present,
\* whose query_service may fail for an endpoint.
C12_EndpointsSet ==
  (registry /\ pc = "start_configured") => endpoints.metadata /\ endpoints.data
\* ------------------------------------------------------------------------ C13
\* C13: a call of devsdk_post_readings submits at most one work item to the
\* pool; it submits none when the named device is not in the device map or the
\* resource does not resolve to a command of the profile, and in both cases it
\* logs and returns without touching the error record.
C13_AtMostOneWorkItem ==
  /\ [][/\ work' <= work + 1
        /\ work' > work =>
              /\ post.devname \in DevNames /\ post.resname \in ProfileCommands
              /\ post.dev /\ post.added = 0 /\ post'.added = 1
        /\ (dpc = "idle" /\ post' # post) =>
              /\ post'.dev = (post'.devname \in devices)
              /\ post'.added = 0
              /\ ~post'.dev => dpc' = "idle" /\ post'.logged = "no such device"
        /\ (dpc' # dpc \/ post' # post) => err' = err]_vars
  /\ [](post.added <= 1)
  /\ []((dpc = "idle" /\ postCalls > 0 /\ post.resname \notin ProfileCommands) =>
          post.added = 0 /\ post.logged # "none")

\* a call naming an unknown resource returned after an earlier call's work item
\* was submitted
C13_Witness ==
  /\ dpc = "idle" /\ postCalls = 2
  /\ post.dev /\ ~post.command /\ post.logged = "no such resource" /\ post.added = 0
  /\ work = 1

\* ------------------------------------------------------------------------ C14
\* C14: when devsdk_service_stop returns, no event-post work item is queued or
\* executing in the worker pool, whatever the driver thread and the HTTP
\* callback thread were doing when stop was called.
C14_DrainedAtReturn ==
  [][(pc = "stop_return" /\ pc' = "stopped") => work' = 0]_vars

\* ------------------------------------------------------------------------ C15
\* the steps of devsdk_service_stop in the order the specification lists them
StopOrder == <<"stopconfig_set", "scheduler_stop", "rest_server_destroy", "driver_stop",
               "devmap_clear", "deregister_service", "scheduler_free", "threadpool_wait">>
IsStopStep(op) == \E k \in 1..Len(StopOrder) : StopOrder[k] = op
StopRank(op) == CHOOSE k \in 1..Len(StopOrder) : StopOrder[k] = op
\* the flag is set when allocated, the server destroyed when created, the
\* service deregistered when there is a registry
StopStepApplies(k) ==
  /\ (StopOrder[k] = "stopconfig_set" => Called("get_config"))
  /\ (StopOrder[k] = "rest_server_destroy" => Called("rest_server_create"))
  /\ (StopOrder[k] = "deregister_service" => registry)

\* C15: devsdk_service_stop sets the config-watch stop flag, stops the
\* scheduler, destroys the HTTP server, calls the driver's stop callback with
\* the caller's force flag, clears the device map, deregisters, frees the
\* scheduler and waits for the pool, in this order, each step once and none
\* that applies left out.
C15_StopOrder ==
  LET steps == SelectSeq(calls, IsStopStep)
      rank == [i \in 1..Len(steps) |-> StopRank(steps[i])]
      done == {rank[i] : i \in 1..Len(steps)}
  IN /\ \A i \in 1..(Len(steps) - 1) : rank[i] < rank[i + 1]
     /\ \A k \in done : \A h \in 1..(k - 1) : StopStepApplies(h) => h \in done
     /\ \A k \in done : StopStepApplies(k)
     /\ pc = "stopped" => \A k \in 1..Len(StopOrder) : StopStepApplies(k) => k \in done
     /\ Called("stopconfig_set") => stopconfig = "true"
     /\ Called("rest_server_destroy") => ~daemon
     /\ Called("driver_stop") => driverStop = (IF force THEN "true" ELSE "false")
     /\ (Called("driver_stop") /\ ~Called("devmap_clear")) =>
          (cbDelivered \/ devices = devsReturned)
     /\ Called("devmap_clear") => devices = {}

C15_Witness ==
  /\ pc = "stopped" /\ registry /\ force
  /\ Len(SelectSeq(calls, IsStopStep)) = Len(StopOrder)

\* ------------------------------------------------------------------------ C16
\* C16: devsdk_service_stop runs every step and the error record it hands back
\* is OK, also when deregistration from the registry failed.
C16_StopNeverFails ==
  pc = "stopped" => err = "OK"

\* ------------------------------------------------------------------------ C17
GetDevicesCalls == Len(SelectSeq(calls, LAMBDA op : op = "get_devices"))

\* C17: after a successful bring-up during which no metadata callback was
\* delivered, the device map holds exactly the devices get_devices returned, and
\* get_devices was called exactly once, also when the configuration file's
\* DeviceList was processed.
C17_MapIsGetDevices ==
  (pc \in {"started", "done"} /\ err = "OK" /\ Called("register_handlers") /\ ~cbDelivered) =>
    /\ devices = devsReturned
    /\ GetDevicesCalls = 1

C17_Witness ==
  /\ pc = "done" /\ err = "OK" /\ ~cbDelivered
  /\ Called("configured_devices") /\ Called("register_handlers")
  /\ devices = Devs
\* ------------------------------------------------------------------------ C18
\* C18: for every name-value list L, also one in which a name occurs more than
\* once, devsdk_nvpairs_equal(devsdk_nvpairs_dup(L), L) is true.
C18_DupIsEqual ==
  (nv.call = "dup" /\ nv.stage = "returned") => nv.ret

\* ------------------------------------------------------------------------ C19
KeySet(list) == {list[i].name : i \in 1..Len(list)}
ValuesUnder(list, key) == {list[i].value : i \in {h \in 1..Len(list) : list[h].name = key}}
\* identical key sets, and every key carries equal values in both lists
SameKeysAndValues(l1, l2) ==
  /\ KeySet(l1) = KeySet(l2)
  /\ \A key \in KeySet(l1) : ValuesUnder(l1, key) = ValuesUnder(l2, key)

\* C19: devsdk_nvpairs_equal(L1, L2) is true exactly when L1 and L2 have the
\* same key set and every key carries an equal value in both, whatever the
\* order of the elements; equal(L2, L1) gives the same result, and lists with
\* different key sets are never equal.
C19_EqualIsSetEquality ==
  (nv.call = "equal" /\ nv.stage = "returned") =>
    /\ nv.ret = SameKeysAndValues(nv.l1, nv.l2)
    /\ nv.ret = devsdk_nvpairs_equal(nv.l2, nv.l1)
    /\ KeySet(nv.l1) # KeySet(nv.l2) => ~nv.ret

\* ------------------------------------------------------------------------ C20
\* a string that is nothing but a decimal number of the type: digits, after a
\* minus sign for the signed types, with a point for the floating type
AllDigits(s, i, j) == \A h \in i..j : s[h] \in Digits
StrictNumber(type, s) ==
  LET neg == Len(s) > 0 /\ s[1] = "-"
      first == IF neg THEN 2 ELSE 1
      points == {h \in first..Len(s) : s[h] = "."}
  IN /\ neg => type # "ulong"
     /\ \E h \in first..Len(s) : s[h] \in Digits
     /\ IF type = "float"
          THEN /\ Cardinality(points) <= 1
               /\ \A h \in first..Len(s) : s[h] \in Digits \cup {"."}
          ELSE AllDigits(s, first, Len(s))

\* C20: a typed accessor returns true and stores the number exactly when the
\* name is present and its value is, as a whole, a number of the target type
\* (a leading minus sign is no unsigned number); otherwise it returns false and
\* leaves the output variable as it was.
C20_StrictParse ==
  (nv.call \in Accessors /\ nv.stage = "returned") =>
    /\ nv.ret = (Present(nv.l1, nv.name) /\ StrictNumber(nv.call, PairValue(nv.l1, nv.name)))
    /\ ~nv.ret => nv.val = Uninitialised
\* ------------------------------------------------------------------------ C21
\* what the command line asks for: a flag given as flag=value takes one
\* argument, a flag followed by its value takes two, -r without a value takes
\* one, every other argument is left where it is
FlagOf(entry) ==
  IF strchr(entry, "=") > 0 THEN SubSeq(entry, 1, strchr(entry, "=") - 1) ELSE entry
InlineValue(entry) == SubSeq(entry, strchr(entry, "=") + 1, Len(entry))
Asked0(env) ==
  [left |-> <<ProgramName>>, regURL |-> env, name |-> NULL, profile |-> NULL,
   confdir |-> NULL, ok |-> TRUE]
RECURSIVE Asked(_, _, _)
Asked(argv, i, acc) ==
  IF i > Len(argv) \/ ~acc.ok THEN acc
  ELSE
    LET entry == argv[i]
        inline == strchr(entry, "=") > 0
        flag == FlagOf(entry)
        next == IF i < Len(argv) THEN argv[i + 1] ELSE NULL
        val == IF inline THEN InlineValue(entry) ELSE next
        field == CASE flag \in {ShortName, LongName} -> "name"
                   [] flag \in {ShortProfile, LongProfile} -> "profile"
                   [] flag \in {ShortConfdir, LongConfdir} -> "confdir"
                   [] OTHER -> "none"
    IN  IF flag \in {ShortRegistry, LongRegistry}
          THEN IF val # NULL /\ val # <<>> /\ val[1] # "-"
                 THEN Asked(argv, IF inline THEN i + 1 ELSE i + 2,
                            [acc EXCEPT !.regURL = val])
                 ELSE Asked(argv, i + 1,
                            [acc EXCEPT !.regURL = IF @ = NULL THEN <<>> ELSE @])
        ELSE IF field # "none"
          THEN IF val # NULL /\ val # <<>>
                 THEN Asked(argv, IF inline THEN i + 1 ELSE i + 2,
                            [acc EXCEPT ![field] = val])
                 ELSE [acc EXCEPT !.ok = FALSE]
        ELSE Asked(argv, i + 1, [acc EXCEPT !.left = Append(@, entry)])
ArgsLeft == SubSeq(cl.argv, 1, cl.argc)

\* C21: when devsdk_service_new has processed its command line, every flag's
\* value is applied to the service and the arguments left are the unrecognised
\* ones in their original order; a -n, -p or -c flag without a value makes the
\* constructor fail with INVALID_ARG.
C21_FlagsConsumed ==
  cl.stage = "returned" =>
    LET asked == Asked(cl.orig, 2, Asked0(cl.regURLenv))
    IN  IF asked.ok
          THEN /\ cl.err = "OK"
               /\ ArgsLeft = asked.left
               /\ <<cl.regURL, cl.name, cl.profile, cl.confdir>>
                    = <<asked.regURL, asked.name, asked.profile, asked.confdir>>
          ELSE cl.err = "INVALID_ARG"

\* ------------------------------------------------------------------------ C22
\* C22: when populating the typed configuration record fails, on the registry
\* path as on the file path, devsdk_service_start returns with that error set
\* and no later step runs.
C22_ConfigErrorReturns ==
  [][(pc \in {"get_config", "parse_toml"} /\ err' = "BAD_CONFIG") => pc' = "done"]_vars

\* ------------------------------------------------------------------------ C23
\* C23: the command descriptor devsdk_post_readings passes to the event
\* transform is never part of a profile that has been freed, whatever a callback
\* handler or devsdk_service_stop does to the device map in between.
C23_CommandNotFreed ==
  post.used # "freed"

\* ------------------------------------------------------------------------ C24
\* C24: once the configuration watch has been subscribed with the stop flag,
\* the flag is true when its memory and the service record are freed.
C24_FlagSetBeforeFree ==
  (pc = "freed" /\ watching) => stopconfig = "true"

\* ------------------------------------------------------------------------ C25
\* C25: on a registry cold start the list uploaded with put_config is the set
\* of pairs the service's typed configuration record was populated from, so
\* the configuration the service runs with equals the one a later start would
\* read back from the registry, also when environment overrides are applied.
C25_RunsWithUploadedConfig ==
  (uploadConfig /\ RegistryGetConfig.has) =>
    cfg = PopulateConfig(RegistryGetConfig.pairs)
====
